---- MODULE Spec2Model ----
(***************************************************************************)
(* Reservation-and-commit pipeline of the flash-sale service.              *)
(*                                                                         *)
(*   caller -> HTTP/gRPC handler -> OrderService.Purchase                  *)
(*          -> (SetIdempotency, DecrementStock on Redis) -> orderQueue     *)
(*          -> workerLoop -> MySQLAdapter.CreateOrder                      *)
(*          -> (on failure) RedisAdapter.IncrementStock                    *)
(*                                                                         *)
(* Every Redis command and every MySQL transaction is one atomic step; the *)
(* goroutines (one per purchase call, one per worker) interleave between   *)
(* those steps.  A store call that returns an error may or may not have    *)
(* taken effect on the server (the reply is lost, or the deadline passes   *)
(* while the reply is awaited): both outcomes are modelled.                *)
(***************************************************************************)
EXTENDS Integers, Sequences, FiniteSets, TLC

\* ---------------------------------------------------------------- bounds

MaxCalls == 2
MaxStock == 2
QueueSize == 1
MaxFaults == 1

Calls == 1..MaxCalls
\* Request identifiers are interchangeable: call c either reuses the
\* identifier of an earlier call or brings the new identifier c.
RequestIDs == 1..MaxCalls
Workers == {"w1", "w2"}
Quantities == {-1, 1, 2}

ItemID == "item"
UserID == "user"

\* ------------------------------------------------------------ the state

VARIABLES
    stock,       \* Redis key stock:<itemID>: [present, value]
    idem,        \* Redis keys idempotency:<requestID> that are live
    expired,     \* request ids whose marker reached its TTL at least once
    queue,       \* OrderService.orderQueue, the buffered channel
    closed,      \* the channel has been closed
    panicked,    \* the process died of a Go runtime panic
    calls,       \* one purchase request per call id
    workers,     \* one workerLoop goroutine per worker id
    inventory,   \* MySQL inventory row of the item: [present, stock, version]
    orders,      \* MySQL orders rows
    failedLog,   \* order ids logged "failed to save order"
    restored,    \* order ids whose compensating INCRBY ran on Redis
    critical,    \* "CRITICAL rollback failed" log entries: [id, err]
    faults,      \* environment events so far (errors, timeouts, expiries)
    initial,     \* the value SetStock wrote at bootstrap
    dbcalls,     \* calls made on the MySQLAdapter directly, in starting order
    dblog,       \* the mutations the inventory row went through, in order
    initialDurable, \* the stock the inventory row held at bootstrap
    capacity,    \* the buffer size NewOrderService made the channel with
    enqueued     \* the ids of the orders sent on the channel, in order

vars == <<stock, idem, expired, queue, closed, panicked, calls, workers,
          inventory, orders, failedLog, restored, critical, faults, initial, dbcalls, dblog, initialDurable, capacity, enqueued>>

\* ------------------------------------------------------- domain objects

OrderStatusPending == "pending"
OrderStatusConfirmed == "confirmed"
OrderStatusCancelled == "cancelled"

ErrDuplicateRequest == "duplicate request"
ErrInsufficientStock == "insufficient stock"
ErrOptimisticLock == "optimistic lock conflict"
ErrIdempotencyFailed == "idempotency check failed"
ErrDecrementFailed == "stock decrement failed"
ErrDeadline == "context deadline exceeded"
ErrIO == "i/o error"
ErrBadRequest == "missing required fields"
Accepted == "order placed successfully"

NoOrder == [id |-> 0, userID |-> UserID, itemID |-> ItemID, qty |-> 0,
            status |-> OrderStatusPending]

\* Mutant: the order is constructed already confirmed.
NewOrder_Confirmed(c, quantity) ==
    [id |-> c, userID |-> UserID, itemID |-> ItemID, qty |-> quantity,
     status |-> OrderStatusConfirmed]

\* The order Purchase constructs; its uuid is modelled by the call id.
NewOrder(c, quantity) ==
    [id |-> c, userID |-> UserID, itemID |-> ItemID, qty |-> quantity,
     status |-> OrderStatusPending]

\* ------------------------------------------------- the reservation store

\* Mutant: DECRBY first, INCRBY back when the result is negative; on a
\* missing key this leaves the key behind.
DecrementStockScript_DecrThenCheck(cur, quantity) ==
    LET after == (IF cur.present THEN cur.value ELSE 0) - quantity
    IN  IF after >= 0
            THEN [ret |-> 1, stock |-> [present |-> TRUE, value |-> after]]
            ELSE [ret |-> 0,
                  stock |-> [present |-> TRUE, value |-> after + quantity]]

\* Mutant: the script subtracts without comparing.
DecrementStockScript_NoCompare(cur, quantity) ==
    IF ~cur.present
        THEN [ret |-> 0, stock |-> cur]
        ELSE [ret |-> 1, stock |-> [cur EXCEPT !.value = @ - quantity]]

\* decrementStockScript: GET, compare, DECRBY as one Lua script.
DecrementStockScript(cur, quantity) ==
    IF ~cur.present
        THEN [ret |-> 0, stock |-> cur]
        ELSE IF cur.value >= quantity
            THEN [ret |-> 1, stock |-> [cur EXCEPT !.value = @ - quantity]]
            ELSE [ret |-> 0, stock |-> cur]

\* INCRBY: a missing key counts as 0.
IncrBy(cur, quantity) ==
    IF cur.present
        THEN [cur EXCEPT !.value = @ + quantity]
        ELSE [present |-> TRUE, value |-> quantity]

\* Mutant: a call that finds the key deletes it.
SetNX_LoserDeletes(markers, key) ==
    [ok |-> key \notin markers,
     markers |-> IF key \in markers THEN markers \ {key}
                                    ELSE markers \cup {key}]

\* Mutant: a plain SET, which always reports success.
SetNX_PlainSet(markers, key) ==
    [ok |-> TRUE, markers |-> markers \cup {key}]

\* SET key 1 NX EX ttl: ok iff the key was absent.
SetNX(markers, key) ==
    [ok |-> key \notin markers, markers |-> markers \cup {key}]

\* ---------------------------------------------------- the durable store

\* Mutant: the guard is "stock > ?" instead of "stock >= ?".
CreateOrderTx_StrictGuard(inv, rows, order) ==
    LET affected == IF inv.present /\ inv.stock > order.qty THEN 1 ELSE 0
    IN  IF affected = 0
            THEN [err |-> ErrOptimisticLock, inv |-> inv, rows |-> rows]
            ELSE [err |-> "nil",
                  inv |-> [inv EXCEPT !.stock = @ - order.qty,
                                      !.version = @ + 1],
                  rows |-> rows \cup {order}]

\* Mutant: the guarded UPDATE forgets "version = version + 1".
CreateOrderTx_NoVersionBump(inv, rows, order) ==
    LET affected == IF inv.present /\ inv.stock >= order.qty THEN 1 ELSE 0
    IN  IF affected = 0
            THEN [err |-> ErrOptimisticLock, inv |-> inv, rows |-> rows]
            ELSE [err |-> "nil",
                  inv |-> [inv EXCEPT !.stock = @ - order.qty],
                  rows |-> rows \cup {order}]

\* Mutant: the inserted order row survives a guard that matched no row.
CreateOrderTx_NoRollback(inv, rows, order) ==
    LET affected == IF inv.present /\ inv.stock >= order.qty THEN 1 ELSE 0
    IN  IF affected = 0
            THEN [err |-> ErrOptimisticLock, inv |-> inv,
                  rows |-> rows \cup {order}]
            ELSE [err |-> "nil",
                  inv |-> [inv EXCEPT !.stock = @ - order.qty,
                                      !.version = @ + 1],
                  rows |-> rows \cup {order}]

\* Mutant: the guarded UPDATE takes one unit whatever the order's quantity.
CreateOrderTx_DecrementOne(inv, rows, order) ==
    LET affected == IF inv.present /\ inv.stock >= order.qty THEN 1 ELSE 0
    IN  IF affected = 0
            THEN [err |-> ErrOptimisticLock, inv |-> inv, rows |-> rows]
            ELSE [err |-> "nil",
                  inv |-> [inv EXCEPT !.stock = @ - 1,
                                      !.version = @ + 1],
                  rows |-> rows \cup {order}]

\* MySQLAdapter.CreateOrder: INSERT the order, guarded UPDATE of the
\* inventory row, COMMIT; zero affected rows rolls the transaction back.
CreateOrderTx(inv, rows, order) ==
    LET affected == IF inv.present /\ inv.stock >= order.qty THEN 1 ELSE 0
    IN  IF affected = 0
            THEN [err |-> ErrOptimisticLock, inv |-> inv, rows |-> rows]
            ELSE [err |-> "nil",
                  inv |-> [inv EXCEPT !.stock = @ - order.qty,
                                      !.version = @ + 1],
                  rows |-> rows \cup {order}]

\* Mutant: the UPDATE is not guarded by the version.
UpdateInventoryStmt_NoVersionGuard(inv, quantity, version) ==
    IF ~inv.present
        THEN [err |-> ErrOptimisticLock, inv |-> inv]
        ELSE [err |-> "nil",
              inv |-> [inv EXCEPT !.stock = quantity, !.version = @ + 1]]

\* Mutant: the UPDATE accepts any version up to the stored one.
UpdateInventoryStmt_StaleWins(inv, quantity, version) ==
    LET affected == IF inv.present /\ inv.version >= version THEN 1 ELSE 0
    IN  IF affected = 0
            THEN [err |-> ErrOptimisticLock, inv |-> inv]
            ELSE [err |-> "nil",
                  inv |-> [inv EXCEPT !.stock = quantity, !.version = @ + 1]]

\* MySQLAdapter.UpdateInventory: one UPDATE guarded by the version; zero
\* affected rows is the lock conflict.
UpdateInventoryStmt(inv, quantity, version) ==
    LET affected == IF inv.present /\ inv.version = version THEN 1 ELSE 0
    IN  IF affected = 0
            THEN [err |-> ErrOptimisticLock, inv |-> inv]
            ELSE [err |-> "nil",
                  inv |-> [inv EXCEPT !.stock = quantity, !.version = @ + 1]]

\* ----------------------------------------------------------------- Init

\* The stock key before SetStock ever wrote it; the item without an
\* inventory row.
NoKey == [present |-> FALSE, value |-> 0]
NoRow == [present |-> FALSE, stock |-> 0, version |-> 0]

\* Bootstrap: SetStock may have written the counter, the inventory table may
\* hold a row for the item, nothing else has happened yet.

Booted(queueSize) ==
    /\ stock \in {NoKey} \cup {[present |-> TRUE, value |-> s] : s \in 0..MaxStock}
    /\ initial = stock.value
    /\ inventory \in {NoRow} \cup {[present |-> TRUE, stock |-> d, version |-> 0] :
                                   d \in 0..MaxStock}
    /\ idem = {}
    /\ expired = {}
    /\ queue = <<>>
    /\ closed = FALSE
    /\ panicked = FALSE
    /\ calls = [c \in Calls |->
                  [pc |-> "idle", rid |-> 0, qty |-> 0, res |-> "",
                   ctxDone |-> FALSE, reserved |-> 0]]
    /\ workers = [w \in Workers |->
                  [pc |-> "recv", order |-> NoOrder, err |-> "nil"]]
    /\ orders = {}
    /\ failedLog = {}
    /\ restored = {}
    /\ critical = {}
    /\ faults = 0
    /\ dbcalls = <<>>
    /\ dblog = <<>>
    /\ initialDurable = inventory.stock
    /\ capacity = queueSize
    /\ enqueued = <<>>

Init == Booted(QueueSize)

\* ------------------------------------------------------ purchase calls

\* A panic ends the process: nothing runs after it.
Running == ~panicked

InFlight(c) == calls[c].pc \in {"idem", "decr", "send"}

Spend == faults < MaxFaults /\ faults' = faults + 1

Return(c, result) ==
    [calls EXCEPT ![c].pc = "done", ![c].res = result]

\* HTTPHandler.Purchase: the request-body validation before the service call
\* (request_id, user_id and item_id are never empty here).
HTTPValid(quantity) == quantity > 0

\* Mutant: InsufficientStock is answered 409 like a duplicate.
HTTPResponse_ConflictForSoldOut(res) ==
    IF res = Accepted
        THEN [status |-> 200, success |-> TRUE, message |-> Accepted]
    ELSE IF res = ErrBadRequest
        THEN [status |-> 400, success |-> FALSE, message |-> ErrBadRequest]
    ELSE IF res = ErrDuplicateRequest
        THEN [status |-> 409, success |-> FALSE, message |-> "duplicate request"]
    ELSE IF res = ErrInsufficientStock
        THEN [status |-> 409, success |-> FALSE, message |-> "duplicate request"]
    ELSE [status |-> 500, success |-> FALSE, message |-> "internal error"]

\* HTTPHandler.Purchase: the response written for what the handler got (its
\* own validation failure, or the result of OrderService.Purchase).
HTTPResponse(res) ==
    IF res = Accepted
        THEN [status |-> 200, success |-> TRUE, message |-> Accepted]
    ELSE IF res = ErrBadRequest
        THEN [status |-> 400, success |-> FALSE, message |-> ErrBadRequest]
    ELSE IF res = ErrDuplicateRequest
        THEN [status |-> 409, success |-> FALSE, message |-> "duplicate request"]
    ELSE IF res = ErrInsufficientStock
        THEN [status |-> 410, success |-> FALSE, message |-> "sold out"]
    ELSE [status |-> 500, success |-> FALSE, message |-> "internal error"]

\* GRPCHandler.Purchase: the PurchaseResponse for the result of
\* OrderService.Purchase (the RPC itself never returns an error).
GRPCResponse(res) ==
    IF res = Accepted
        THEN [success |-> TRUE, message |-> Accepted]
    ELSE IF res = ErrDuplicateRequest
        THEN [success |-> FALSE, message |-> "duplicate request"]
    ELSE IF res = ErrInsufficientStock
        THEN [success |-> FALSE, message |-> "sold out"]
    ELSE [success |-> FALSE, message |-> "internal error"]

\* A call arrives over HTTP; an invalid body is answered 400 at once.
HTTPPurchase(c, rid, quantity) ==
    /\ Running
    /\ calls[c].pc = "idle"
    /\ ~closed
    /\ \A d \in Calls : d < c => calls[d].pc # "idle"
    /\ calls' = IF HTTPValid(quantity)
                    THEN [calls EXCEPT ![c].pc = "idem", ![c].rid = rid,
                                       ![c].qty = quantity]
                    ELSE [calls EXCEPT ![c].pc = "done", ![c].rid = rid,
                                       ![c].qty = quantity,
                                       ![c].res = ErrBadRequest]
    /\ UNCHANGED <<stock, idem, expired, queue, closed, panicked, workers,
                   inventory, orders, failedLog, restored, critical, faults, initial, dbcalls, dblog, initialDurable, capacity, enqueued>>

\* A call arrives over gRPC; the handler passes the quantity on as it is.
GRPCPurchase(c, rid, quantity) ==
    /\ Running
    /\ calls[c].pc = "idle"
    /\ ~closed
    /\ \A d \in Calls : d < c => calls[d].pc # "idle"
    /\ calls' = [calls EXCEPT ![c].pc = "idem", ![c].rid = rid,
                              ![c].qty = quantity]
    /\ UNCHANGED <<stock, idem, expired, queue, closed, panicked, workers,
                   inventory, orders, failedLog, restored, critical, faults, initial, dbcalls, dblog, initialDurable, capacity, enqueued>>

\* The caller goes away or its deadline passes while the call is running.
CancelCtx(c) ==
    /\ Running
    /\ InFlight(c)
    /\ ~calls[c].ctxDone
    /\ Spend
    /\ calls' = [calls EXCEPT ![c].ctxDone = TRUE]
    /\ UNCHANGED <<stock, idem, expired, queue, closed, panicked, workers,
                   inventory, orders, failedLog, restored, critical, initial, dbcalls, dblog, initialDurable, capacity, enqueued>>

\* Mutant: the stock is taken before the duplicate is reported.
SetIdempotency_DecrementFirst(c) ==
    /\ Running
    /\ calls[c].pc = "idem"
    /\ ~calls[c].ctxDone
    /\ LET r == SetNX(idem, calls[c].rid)
           d == DecrementStockScript(stock, calls[c].qty)
       IN  /\ idem' = r.markers
           /\ stock' = IF r.ok THEN stock ELSE d.stock
           /\ calls' = IF r.ok
                           THEN [calls EXCEPT ![c].pc = "decr"]
                           ELSE Return(c, ErrDuplicateRequest)
    /\ UNCHANGED <<expired, queue, closed, panicked, workers,
                   inventory, orders, failedLog, restored, critical, faults,
                   initial, dbcalls, dblog, initialDurable, capacity, enqueued>>

\* Mutant: the answer of SetIdempotency is not looked at.
SetIdempotency_IgnoreAnswer(c) ==
    /\ Running
    /\ calls[c].pc = "idem"
    /\ ~calls[c].ctxDone
    /\ idem' = SetNX(idem, calls[c].rid).markers
    /\ calls' = [calls EXCEPT ![c].pc = "decr"]
    /\ UNCHANGED <<stock, expired, queue, closed, panicked, workers,
                   inventory, orders, failedLog, restored, critical, faults,
                   initial, dbcalls, dblog, initialDurable, capacity, enqueued>>

\* Purchase, step 1: SetIdempotency answers.
SetIdempotency(c) ==
    /\ Running
    /\ calls[c].pc = "idem"
    /\ ~calls[c].ctxDone
    /\ LET r == SetNX(idem, calls[c].rid)
       IN  /\ idem' = r.markers
           /\ calls' = IF r.ok
                           THEN [calls EXCEPT ![c].pc = "decr"]
                           ELSE Return(c, ErrDuplicateRequest)
    /\ UNCHANGED <<stock, expired, queue, closed, panicked, workers,
                   inventory, orders, failedLog, restored, critical, faults, initial, dbcalls, dblog, initialDurable, capacity, enqueued>>

\* Mutant: fail-open, an error of the idempotency check is ignored.
SetIdempotencyErr_FailOpen(c, applied) ==
    /\ Running
    /\ calls[c].pc = "idem"
    /\ \/ calls[c].ctxDone /\ ~applied /\ faults' = faults
       \/ ~calls[c].ctxDone /\ Spend
    /\ idem' = IF applied THEN SetNX(idem, calls[c].rid).markers ELSE idem
    /\ calls' = [calls EXCEPT ![c].pc = "decr", ![c].ctxDone = FALSE]
    /\ UNCHANGED <<stock, expired, queue, closed, panicked, workers,
                   inventory, orders, failedLog, restored, critical, initial,
                   dbcalls, dblog, initialDurable, capacity, enqueued>>

\* Purchase, step 1: SetIdempotency returns an error ("idempotency check
\* failed").  A done context fails the command before it is sent; any other
\* error may come after the server has run the command.
SetIdempotencyErr(c, applied) ==
    /\ Running
    /\ calls[c].pc = "idem"
    /\ \/ calls[c].ctxDone /\ ~applied /\ faults' = faults
       \/ ~calls[c].ctxDone /\ Spend
    /\ idem' = IF applied THEN SetNX(idem, calls[c].rid).markers ELSE idem
    /\ calls' = Return(c, ErrIdempotencyFailed)
    /\ UNCHANGED <<stock, expired, queue, closed, panicked, workers,
                   inventory, orders, failedLog, restored, critical, initial, dbcalls, dblog, initialDurable, capacity, enqueued>>

\* Mutant: a refused reservation gives the request id back.
DecrementStock_ReleaseMarker(c) ==
    /\ Running
    /\ calls[c].pc = "decr"
    /\ ~calls[c].ctxDone
    /\ LET r == DecrementStockScript(stock, calls[c].qty)
       IN  /\ stock' = r.stock
           /\ idem' = IF r.ret = 1 THEN idem ELSE idem \ {calls[c].rid}
           /\ calls' = IF r.ret = 1
                           THEN [calls EXCEPT ![c].pc = "send",
                                              ![c].reserved = calls[c].qty]
                           ELSE Return(c, ErrInsufficientStock)
    /\ UNCHANGED <<expired, queue, closed, panicked, workers,
                   inventory, orders, failedLog, restored, critical, faults,
                   initial, dbcalls, dblog, initialDurable, capacity, enqueued>>

\* Purchase, step 2: DecrementStock answers.
DecrementStock(c) ==
    /\ Running
    /\ calls[c].pc = "decr"
    /\ ~calls[c].ctxDone
    /\ LET r == DecrementStockScript(stock, calls[c].qty)
       IN  /\ stock' = r.stock
           /\ calls' = IF r.ret = 1
                           THEN [calls EXCEPT ![c].pc = "send",
                                              ![c].reserved = calls[c].qty]
                           ELSE Return(c, ErrInsufficientStock)
    /\ UNCHANGED <<idem, expired, queue, closed, panicked, workers,
                   inventory, orders, failedLog, restored, critical, faults, initial, dbcalls, dblog, initialDurable, capacity, enqueued>>

\* Purchase, step 2: DecrementStock returns an error ("stock decrement
\* failed"); Purchase returns it and does nothing else.
DecrementStockErr(c, applied) ==
    /\ Running
    /\ calls[c].pc = "decr"
    /\ \/ calls[c].ctxDone /\ ~applied /\ faults' = faults
       \/ ~calls[c].ctxDone /\ Spend
    /\ LET r == DecrementStockScript(stock, calls[c].qty)
       IN  /\ stock' = IF applied THEN r.stock ELSE stock
           /\ calls' = [Return(c, ErrDecrementFailed) EXCEPT
                          ![c].reserved = IF applied /\ r.ret = 1
                                              THEN calls[c].qty ELSE 0]
    /\ UNCHANGED <<idem, expired, queue, closed, panicked, workers,
                   inventory, orders, failedLog, restored, critical, initial, dbcalls, dblog, initialDurable, capacity, enqueued>>

\* Mutant: a non-blocking send (select with default) that gives up on a full
\* buffer.
Enqueue_NonBlocking(c) ==
    /\ Running
    /\ calls[c].pc = "send"
    /\ ~closed
    /\ IF Len(queue) < capacity
           THEN /\ queue' = Append(queue, NewOrder(c, calls[c].qty))
                /\ enqueued' = Append(enqueued, c)
                /\ calls' = Return(c, Accepted)
           ELSE /\ queue' = queue
                /\ enqueued' = enqueued
                /\ calls' = Return(c, ErrIO)
    /\ UNCHANGED <<stock, idem, expired, closed, panicked, workers, inventory,
                   orders, failedLog, restored, critical, faults, initial,
                   dbcalls, dblog, initialDurable, capacity>>

\* Purchase, steps 3 and 4: build the order and send it on the channel.  The
\* send waits while the buffer is full, whatever the caller's context says,
\* and panics on a closed channel: net/http recovers a handler's panic and
\* drops the request, under gRPC (or a direct caller) the process dies.
Enqueue(c) ==
    /\ Running
    /\ calls[c].pc = "send"
    /\ IF closed
           THEN /\ \E recovered \in BOOLEAN :
                      /\ panicked' = ~recovered
                      /\ calls' = IF recovered
                                      THEN [calls EXCEPT ![c].pc = "panicked"]
                                      ELSE calls
                /\ UNCHANGED <<queue, enqueued>>
           ELSE /\ Len(queue) < capacity
                /\ queue' = Append(queue, NewOrder(c, calls[c].qty))
                /\ enqueued' = Append(enqueued, c)
                /\ calls' = Return(c, Accepted)
                /\ UNCHANGED panicked
    /\ UNCHANGED <<stock, idem, expired, closed, workers, inventory, orders,
                   failedLog, restored, critical, faults, initial, dbcalls,
                   dblog, initialDurable, capacity>>

\* The 24-hour TTL of an idempotency marker runs out.
ExpireIdempotency(rid) ==
    /\ Running
    /\ rid \in idem
    /\ Spend
    /\ idem' = idem \ {rid}
    /\ expired' = expired \cup {rid}
    /\ UNCHANGED <<stock, queue, closed, panicked, calls, workers, inventory,
                   orders, failedLog, restored, critical, initial, dbcalls, dblog, initialDurable, capacity, enqueued>>

\* OrderService.Close: close(orderQueue); closing a channel that is already
\* closed is a runtime panic.
Close ==
    /\ Running
    /\ IF closed
           THEN panicked' = TRUE /\ closed' = closed
           ELSE closed' = TRUE /\ panicked' = panicked
    /\ UNCHANGED <<stock, idem, expired, queue, calls, workers,
                   inventory, orders, failedLog, restored, critical, faults, initial, dbcalls, dblog, initialDurable, capacity, enqueued>>

\* -------------------------------------------------------------- workers

Idle == [pc |-> "recv", order |-> NoOrder, err |-> "nil"]

\* Mutant: the worker takes the newest order of the buffer.
Receive_Lifo(w) ==
    /\ Running
    /\ workers[w].pc = "recv"
    /\ IF queue # <<>>
           THEN /\ workers' = [workers EXCEPT ![w] =
                      [pc |-> "create", order |-> queue[Len(queue)],
                       err |-> "nil"]]
                /\ queue' = SubSeq(queue, 1, Len(queue) - 1)
           ELSE /\ closed
                /\ workers' = [workers EXCEPT ![w].pc = "stopped"]
                /\ UNCHANGED queue
    /\ UNCHANGED <<stock, idem, expired, closed, panicked, calls, inventory,
                   orders, failedLog, restored, critical, faults, initial,
                   dbcalls, dblog, initialDurable, capacity, enqueued>>

\* Mutant: a non-blocking receive, the worker leaves its loop when it finds
\* the buffer empty.
Receive_ExitOnEmpty(w) ==
    /\ Running
    /\ workers[w].pc = "recv"
    /\ IF queue # <<>>
           THEN /\ workers' = [workers EXCEPT ![w] =
                      [pc |-> "create", order |-> Head(queue), err |-> "nil"]]
                /\ queue' = Tail(queue)
           ELSE /\ workers' = [workers EXCEPT ![w].pc = "stopped"]
                /\ UNCHANGED queue
    /\ UNCHANGED <<stock, idem, expired, closed, panicked, calls, inventory,
                   orders, failedLog, restored, critical, faults, initial,
                   dbcalls, dblog, initialDurable, capacity, enqueued>>

\* workerLoop: "for order := range queue" takes the next order, or ends once
\* the channel is closed and empty; each order gets a fresh 5 s context.
Receive(w) ==
    /\ Running
    /\ workers[w].pc = "recv"
    /\ IF queue # <<>>
           THEN /\ workers' = [workers EXCEPT ![w] =
                      [pc |-> "create", order |-> Head(queue), err |-> "nil"]]
                /\ queue' = Tail(queue)
           ELSE /\ closed
                /\ workers' = [workers EXCEPT ![w].pc = "stopped"]
                /\ UNCHANGED queue
    /\ UNCHANGED <<stock, idem, expired, closed, panicked, calls, inventory,
                   orders, failedLog, restored, critical, faults, initial, dbcalls, dblog, initialDurable, capacity, enqueued>>

\* What the worker does with CreateOrder's answer: on an error it logs the
\* failure and goes on to the rollback, otherwise it is done with the order.
AfterCreate(w, err) ==
    /\ workers' = [workers EXCEPT ![w] =
                      IF err = "nil"
                          THEN Idle
                          ELSE [pc |-> "rollback", order |-> workers[w].order,
                                err |-> err]]
    /\ failedLog' = IF err = "nil" THEN failedLog
                                   ELSE failedLog \cup {workers[w].order.id}

\* Mutant: commits are serialised in enqueue order (a worker waits until the
\* orders enqueued before its own have been dealt with).
CreateOrder_InOrder(w) ==
    /\ Running
    /\ workers[w].pc = "create"
    /\ \A i, j \in 1..Len(enqueued) :
          (i < j /\ enqueued[j] = workers[w].order.id)
              => \/ enqueued[i] \in failedLog
                 \/ \E r \in orders : r.id = enqueued[i]
    /\ LET r == CreateOrderTx(inventory, orders, workers[w].order)
       IN  /\ inventory' = r.inv
           /\ orders' = r.rows
           /\ dblog' = IF r.err = "nil" THEN Append(dblog, "CreateOrder")
                                        ELSE dblog
           /\ AfterCreate(w, r.err)
    /\ UNCHANGED <<stock, idem, expired, queue, closed, panicked, calls,
                   restored, critical, faults, initial, dbcalls,
                   initialDurable, capacity, enqueued>>

\* db.CreateOrder runs its transaction and answers.
CreateOrder(w) ==
    /\ Running
    /\ workers[w].pc = "create"
    /\ LET r == CreateOrderTx(inventory, orders, workers[w].order)
       IN  /\ inventory' = r.inv
           /\ orders' = r.rows
           /\ dblog' = IF r.err = "nil" THEN Append(dblog, "CreateOrder")
                                        ELSE dblog
           /\ AfterCreate(w, r.err)
    /\ UNCHANGED <<stock, idem, expired, queue, closed, panicked, calls,
                   restored, critical, faults, initial, dbcalls, initialDurable, capacity, enqueued>>

\* db.CreateOrder returns an error other than the lock conflict: a failed
\* BEGIN, INSERT or UPDATE (nothing is applied), a COMMIT whose answer is lost
\* (the transaction may be applied), or the 5 s deadline passing at either
\* point.
CreateOrderErr(w, applied, timedOut) ==
    /\ Running
    /\ workers[w].pc = "create"
    /\ Spend
    /\ LET r == CreateOrderTx(inventory, orders, workers[w].order)
       IN  /\ applied => r.err = "nil"
           /\ inventory' = IF applied THEN r.inv ELSE inventory
           /\ orders' = IF applied THEN r.rows ELSE orders
           /\ dblog' = IF applied THEN Append(dblog, "CreateOrder") ELSE dblog
    /\ AfterCreate(w, IF timedOut THEN ErrDeadline ELSE ErrIO)
    /\ UNCHANGED <<stock, idem, expired, queue, closed, panicked, calls,
                   restored, critical, initial, dbcalls, initialDurable, capacity, enqueued>>

\* The context the worker made for this order is past its 5 s deadline.
CtxExpired(w) == workers[w].err = ErrDeadline

\* Mutant: after the rollback the worker tries the same order again.
AfterRollback_Retry(w, err) ==
    /\ critical' = IF err = "nil" THEN critical
                       ELSE critical \cup
                                {[id |-> workers[w].order.id, err |-> err]}
    /\ workers' = [workers EXCEPT ![w].pc = "create", ![w].err = "nil"]

\* Mutant: a failed rollback is swallowed, nothing is logged.
AfterRollback_Silent(w, err) ==
    /\ critical' = critical
    /\ workers' = [workers EXCEPT ![w] = Idle]

\* What the worker does after the rollback call: it logs CRITICAL on an error
\* and goes back to the channel either way.
AfterRollback(w, err) ==
    /\ critical' = IF err = "nil" THEN critical
                       ELSE critical \cup
                                {[id |-> workers[w].order.id, err |-> err]}
    /\ workers' = [workers EXCEPT ![w] = Idle]

\* Mutant: the rollback is INCR, which adds 1 whatever the order's quantity.
Rollback_IncrOne(w) ==
    /\ Running
    /\ workers[w].pc = "rollback"
    /\ IF CtxExpired(w)
           THEN /\ AfterRollback(w, ErrDeadline)
                /\ UNCHANGED <<stock, restored>>
           ELSE /\ stock' = IncrBy(stock, 1)
                /\ restored' = restored \cup {workers[w].order.id}
                /\ AfterRollback(w, "nil")
    /\ UNCHANGED <<idem, expired, queue, closed, panicked, calls, inventory,
                   orders, failedLog, faults, initial, dbcalls, dblog,
                   initialDurable, capacity, enqueued>>

\* Mutant: the rollback also deletes the idempotency marker of the order's
\* request.
Rollback_ReleaseMarker(w) ==
    /\ Running
    /\ workers[w].pc = "rollback"
    /\ IF CtxExpired(w)
           THEN /\ AfterRollback(w, ErrDeadline)
                /\ UNCHANGED <<stock, restored, idem>>
           ELSE /\ stock' = IncrBy(stock, workers[w].order.qty)
                /\ restored' = restored \cup {workers[w].order.id}
                /\ idem' = idem \ {calls[workers[w].order.id].rid}
                /\ AfterRollback(w, "nil")
    /\ UNCHANGED <<expired, queue, closed, panicked, calls, inventory,
                   orders, failedLog, faults, initial, dbcalls, dblog,
                   initialDurable, capacity, enqueued>>

\* cache.IncrementStock(ctx, ...) with the context CreateOrder ran under: a
\* context past its deadline fails the command before it is sent.
Rollback(w) ==
    /\ Running
    /\ workers[w].pc = "rollback"
    /\ IF CtxExpired(w)
           THEN /\ AfterRollback(w, ErrDeadline)
                /\ UNCHANGED <<stock, restored>>
           ELSE /\ stock' = IncrBy(stock, workers[w].order.qty)
                /\ restored' = restored \cup {workers[w].order.id}
                /\ AfterRollback(w, "nil")
    /\ UNCHANGED <<idem, expired, queue, closed, panicked, calls, inventory,
                   orders, failedLog, faults, initial, dbcalls, dblog, initialDurable, capacity, enqueued>>

\* cache.IncrementStock returns an error although its context is live.
RollbackErr(w, applied) ==
    /\ Running
    /\ workers[w].pc = "rollback"
    /\ ~CtxExpired(w)
    /\ Spend
    /\ stock' = IF applied THEN IncrBy(stock, workers[w].order.qty) ELSE stock
    /\ restored' = IF applied THEN restored \cup {workers[w].order.id}
                              ELSE restored
    /\ AfterRollback(w, ErrIO)
    /\ UNCHANGED <<idem, expired, queue, closed, panicked, calls, inventory,
                   orders, failedLog, initial, dbcalls, dblog, initialDurable, capacity, enqueued>>

WorkerStep(w) ==
    \/ Receive(w)
    \/ CreateOrder(w)
    \/ \E applied, timedOut \in BOOLEAN : CreateOrderErr(w, applied, timedOut)
    \/ Rollback(w)
    \/ \E applied \in BOOLEAN : RollbackErr(w, applied)

\* -------------------------------------------------------- specification

\* main calls Close once, at shutdown.
Next ==
    \/ \E c \in Calls, rid \in RequestIDs, q \in Quantities :
          rid <= c /\ HTTPPurchase(c, rid, q)
    \/ \E c \in Calls, rid \in RequestIDs, q \in Quantities :
          rid <= c /\ GRPCPurchase(c, rid, q)
    \/ \E c \in Calls : CancelCtx(c)
    \/ \E c \in Calls : SetIdempotency(c)
    \/ \E c \in Calls, applied \in BOOLEAN : SetIdempotencyErr(c, applied)
    \/ \E c \in Calls : DecrementStock(c)
    \/ \E c \in Calls, applied \in BOOLEAN : DecrementStockErr(c, applied)
    \/ \E c \in Calls : Enqueue(c)
    \/ \E rid \in RequestIDs : ExpireIdempotency(rid)
    \/ ~closed /\ Close
    \/ \E w \in Workers : WorkerStep(w)

Spec == Init /\ [][Next]_vars

\* The Go scheduler runs every runnable goroutine: a worker that can take a
\* step eventually takes one.
FairSpec == Spec /\ \A w \in Workers : WF_vars(WorkerStep(w))

\* The pipeline with stock for every call, workers that keep running, and a
\* goroutine waiting to send that gets its turn: the channel
\* serves its waiting senders in arrival order, so a sender that can go again
\* and again does go.
LiveInit == Init /\ stock.present /\ stock.value = MaxStock

LiveSpec ==
    /\ LiveInit
    /\ [][Next]_vars
    /\ \A w \in Workers : WF_vars(WorkerStep(w))
    /\ \A c \in Calls : SF_vars(Enqueue(c))

\* The service under a caller that may call Close any number of times.
ServiceNext == Next \/ Close

ServiceSpec == Init /\ [][ServiceNext]_vars

\* The pipeline with a single worker and a buffer of two orders.
FifoQueueSize == 2

FifoInit == Booted(FifoQueueSize)

FifoNext ==
    \/ \E c \in Calls, rid \in RequestIDs, q \in Quantities :
          rid <= c /\ HTTPPurchase(c, rid, q)
    \/ \E c \in Calls, rid \in RequestIDs, q \in Quantities :
          rid <= c /\ GRPCPurchase(c, rid, q)
    \/ \E c \in Calls : CancelCtx(c)
    \/ \E c \in Calls : SetIdempotency(c)
    \/ \E c \in Calls, applied \in BOOLEAN : SetIdempotencyErr(c, applied)
    \/ \E c \in Calls : DecrementStock(c)
    \/ \E c \in Calls, applied \in BOOLEAN : DecrementStockErr(c, applied)
    \/ \E c \in Calls : Enqueue(c)
    \/ \E rid \in RequestIDs : ExpireIdempotency(rid)
    \/ ~closed /\ Close
    \/ WorkerStep("w1")

FifoSpec == FifoInit /\ [][FifoNext]_vars

\* ------------------------------------- the durable store, called directly

\* The adapter under callers of its own (as its tests drive it): each call is
\* a goroutine that starts with its arguments and later runs its statement.
MaxStoreCalls == 3
MaxVersion == 2

Versions == 0..MaxVersion
Pending == "pending"

Others == <<stock, idem, expired, queue, closed, panicked, calls, workers,
            failedLog, restored, critical, initial, initialDurable, capacity, enqueued>>

\* The version the row holds when a call starts (-1: no row).
StoredVersion == IF inventory.present THEN inventory.version ELSE -1

StartUpdateInventory(quantity, version) ==
    /\ Len(dbcalls) < MaxStoreCalls
    /\ dbcalls' = Append(dbcalls,
                     [op |-> "UpdateInventory", qty |-> quantity,
                      version |-> version, seen |-> StoredVersion,
                      res |-> Pending])
    /\ UNCHANGED <<Others, inventory, orders, dblog, faults>>

StartCreateOrder(quantity) ==
    /\ Len(dbcalls) < MaxStoreCalls
    /\ dbcalls' = Append(dbcalls,
                     [op |-> "CreateOrder", qty |-> quantity,
                      version |-> 0, seen |-> StoredVersion,
                      res |-> Pending])
    /\ UNCHANGED <<Others, inventory, orders, dblog, faults>>

Runs(i, op) ==
    /\ i \in 1..Len(dbcalls)
    /\ dbcalls[i].op = op
    /\ dbcalls[i].res = Pending

\* UpdateInventory runs its statement and answers.
UpdateInventory(i) ==
    /\ Runs(i, "UpdateInventory")
    /\ LET r == UpdateInventoryStmt(inventory, dbcalls[i].qty,
                                    dbcalls[i].version)
       IN  /\ inventory' = r.inv
           /\ dblog' = IF r.err = "nil" THEN Append(dblog, "UpdateInventory")
                                        ELSE dblog
           /\ dbcalls' = [dbcalls EXCEPT ![i].res = r.err]
    /\ UNCHANGED <<Others, orders, faults>>

\* UpdateInventory returns "update inventory: ..." : the statement failed, or
\* it ran and its answer was lost.
UpdateInventoryErr(i, applied) ==
    /\ Runs(i, "UpdateInventory")
    /\ Spend
    /\ LET r == UpdateInventoryStmt(inventory, dbcalls[i].qty,
                                    dbcalls[i].version)
       IN  /\ applied => r.err = "nil"
           /\ inventory' = IF applied THEN r.inv ELSE inventory
           /\ dblog' = IF applied THEN Append(dblog, "UpdateInventory")
                                  ELSE dblog
    /\ dbcalls' = [dbcalls EXCEPT ![i].res = ErrIO]
    /\ UNCHANGED <<Others, orders>>

\* CreateOrder called on the adapter directly; the order's id is the call's.
StoreCreateOrder(i) ==
    /\ Runs(i, "CreateOrder")
    /\ LET r == CreateOrderTx(inventory, orders, NewOrder(i, dbcalls[i].qty))
       IN  /\ inventory' = r.inv
           /\ orders' = r.rows
           /\ dblog' = IF r.err = "nil" THEN Append(dblog, "CreateOrder")
                                        ELSE dblog
           /\ dbcalls' = [dbcalls EXCEPT ![i].res = r.err]
    /\ UNCHANGED <<Others, faults>>

StoreCreateOrderErr(i, applied) ==
    /\ Runs(i, "CreateOrder")
    /\ Spend
    /\ LET r == CreateOrderTx(inventory, orders, NewOrder(i, dbcalls[i].qty))
       IN  /\ applied => r.err = "nil"
           /\ inventory' = IF applied THEN r.inv ELSE inventory
           /\ orders' = IF applied THEN r.rows ELSE orders
           /\ dblog' = IF applied THEN Append(dblog, "CreateOrder") ELSE dblog
    /\ dbcalls' = [dbcalls EXCEPT ![i].res = ErrIO]
    /\ UNCHANGED Others

StoreInit == Init /\ stock = NoKey

StoreNext ==
    \/ \E q \in Quantities, v \in Versions : StartUpdateInventory(q, v)
    \/ \E q \in Quantities : StartCreateOrder(q)
    \/ \E i \in 1..MaxStoreCalls : UpdateInventory(i)
    \/ \E i \in 1..MaxStoreCalls, applied \in BOOLEAN :
          UpdateInventoryErr(i, applied)
    \/ \E i \in 1..MaxStoreCalls : StoreCreateOrder(i)
    \/ \E i \in 1..MaxStoreCalls, applied \in BOOLEAN :
          StoreCreateOrderErr(i, applied)

StoreSpec == StoreInit /\ [][StoreNext]_vars

\* ================================================================ claims

Min(a, b) == IF a <= b THEN a ELSE b
Max(a, b) == IF a >= b THEN a ELSE b

Started == {c \in Calls : calls[c].pc # "idle"}
Returned == {c \in Calls : calls[c].pc = "done"}
Succeeded == {c \in Calls : calls[c].res = Accepted}

\* The ids of the orders that were ever put on the queue: those still
\* buffered, those a worker holds, those persisted and those logged as failed.
EverEnqueued ==
    {queue[i].id : i \in 1..Len(queue)}
        \cup {workers[w].order.id : w \in {x \in Workers : workers[x].pc \in {"create", "rollback"}}}
        \cup {o.id : o \in orders}
        \cup failedLog

\* R purchase calls for quantity 1 with distinct request ids have all
\* returned, against a counter that started at S, with no store error and no
\* failed commit.
QuietUnitRun ==
    /\ stock.present
    /\ faults = 0
    /\ failedLog = {}
    /\ Started = Returned
    /\ \A c \in Started : calls[c].qty = 1
    /\ \A c, d \in Started : c # d => calls[c].rid # calls[d].rid

\* C1 (no-oversell): once R concurrent purchase calls with distinct request
\* ids, each for quantity 1, have returned against a counter that started at
\* S (no store error, no compensation), exactly min(R, S) succeeded, all the
\* others failed with InsufficientStock, and the counter is S minus the
\* successes, max(0, S - R).
C1_NoOversell ==
    QuietUnitRun =>
        LET R == Cardinality(Started)
            n == Cardinality(Succeeded)
        IN  /\ n = Min(R, initial)
            /\ \A c \in Started \ Succeeded :
                  calls[c].res = ErrInsufficientStock
            /\ stock.value = initial - n
            /\ stock.value = Max(0, initial - R)

\* Two calls compete for the last unit: one wins, one is refused.
C1_Witness ==
    /\ QuietUnitRun
    /\ Cardinality(Started) = 2
    /\ initial = 1
    /\ Cardinality(Succeeded) = 1

\* C2: the reservation counter is never negative.
C2_CounterNonNegative == stock.present => stock.value >= 0

\* The call has had SetIdempotency's answer (not an error).
PastCheck(c) ==
    /\ calls[c].pc \in {"decr", "send", "done", "panicked"}
    /\ calls[c].res \notin {ErrBadRequest, ErrIdempotencyFailed}

\* C3 (idempotence): of two purchase calls with the same requestID, made
\* while its marker has not expired, at most one succeeds, at most one has an
\* order enqueued, and once both have SetIdempotency's answer one of them has
\* returned DuplicateRequest, whatever became of the other's reservation.
C3_Idempotence ==
    \A c, d \in Started :
        (c # d /\ calls[c].rid = calls[d].rid /\ calls[c].rid \notin expired)
            => /\ ~(c \in Succeeded /\ d \in Succeeded)
               /\ ~(c \in EverEnqueued /\ d \in EverEnqueued)
               /\ (PastCheck(c) /\ PastCheck(d))
                      => \/ calls[c].res = ErrDuplicateRequest
                         \/ calls[d].res = ErrDuplicateRequest

\* The same requestID twice: the first call is refused for lack of stock, the
\* second is still a duplicate.
C3_Witness ==
    \E c, d \in Calls :
        /\ c # d
        /\ calls[c].rid = calls[d].rid
        /\ calls[c].rid \notin expired
        /\ calls[c].res = ErrInsufficientStock
        /\ calls[d].res = ErrDuplicateRequest

\* C4: the step in which a call gets DuplicateRequest changes neither the
\* counter nor the queue nor any marker, and that call never took stock; so
\* when a request is accepted and repeated, the counter is down by the
\* quantity of the accepted call only.
C4_DuplicateNoSideEffect ==
    /\ [][\A c \in Calls :
            (calls[c].res # ErrDuplicateRequest
                /\ calls'[c].res = ErrDuplicateRequest)
            => /\ stock' = stock
               /\ queue' = queue
               /\ idem' = idem
               /\ calls'[c].reserved = 0]_vars
    /\ [](\A c, d \in Calls :
            (/\ Started = {c, d}
             /\ calls[c].rid = calls[d].rid
             /\ calls[c].res = Accepted
             /\ calls[d].res = ErrDuplicateRequest
             /\ faults = 0
             /\ failedLog = {})
            => stock.value = initial - calls[c].qty)

\* A request is accepted, repeated and refused as a duplicate.
C4_Witness ==
    \E c, d \in Calls :
        /\ Started = {c, d}
        /\ calls[c].rid = calls[d].rid
        /\ calls[c].res = Accepted
        /\ calls[d].res = ErrDuplicateRequest
        /\ calls[d].qty > 0
        /\ stock.value >= calls[d].qty
        /\ stock.value = initial - calls[c].qty

\* The steps in which call c gets InsufficientStock, and in which call d gets
\* SetIdempotency's answer after a call c with its request id was refused.
RefusedNow(c) ==
    calls[c].res # ErrInsufficientStock /\ calls'[c].res = ErrInsufficientStock

RetryAnswered(c, d) ==
    /\ c # d
    /\ calls[c].res = ErrInsufficientStock
    /\ calls[d].rid = calls[c].rid
    /\ calls[d].pc = "idem"
    /\ calls'[d].pc # "idem"
    /\ calls'[d].res # ErrIdempotencyFailed

\* C5 as stated: a purchase refused with InsufficientStock leaves the counter
\* and the queue alone and its marker set, and every later purchase with the
\* same requestID returns DuplicateRequest.
C5_RetryAlwaysDuplicate ==
    /\ [][\A c \in Calls :
            RefusedNow(c) => /\ stock' = stock
                             /\ queue' = queue
                             /\ calls'[c].reserved = 0]_vars
    /\ [](\A c \in Calls :
            calls[c].res = ErrInsufficientStock => c \notin EverEnqueued)
    /\ [][\A c, d \in Calls :
            RetryAnswered(c, d) => calls'[d].res = ErrDuplicateRequest]_vars

\* C5 as amended: the same, while the marker has not reached its TTL.
C5_RetryDuplicateUntilExpiry ==
    /\ [][\A c \in Calls :
            RefusedNow(c) => /\ stock' = stock
                             /\ queue' = queue
                             /\ calls'[c].reserved = 0
                             /\ calls[c].rid \notin expired
                                    => calls[c].rid \in idem']_vars
    /\ [](\A c \in Calls :
            calls[c].res = ErrInsufficientStock
                => /\ c \notin EverEnqueued
                   /\ calls[c].rid \notin expired => calls[c].rid \in idem)
    /\ [][\A c, d \in Calls :
            (RetryAnswered(c, d) /\ calls[c].rid \notin expired')
                => calls'[d].res = ErrDuplicateRequest]_vars

\* A request is refused for lack of stock; its retry asks for a quantity the
\* counter can cover and is refused as a duplicate.
C5_Witness ==
    \E c, d \in Calls :
        /\ c # d
        /\ calls[c].rid = calls[d].rid
        /\ calls[c].rid \notin expired
        /\ calls[c].res = ErrInsufficientStock
        /\ calls[d].res = ErrDuplicateRequest
        /\ calls[d].qty > 0
        /\ stock.value >= calls[d].qty

\* The worker is done with order o.
Finished(o) ==
    /\ o \notin {queue[i].id : i \in 1..Len(queue)}
    /\ \A w \in Workers :
          workers[w].pc \in {"create", "rollback"} => workers[w].order.id # o

\* The rollback of order o ended in a store error of IncrementStock itself.
RollbackIOError(o) == [id |-> o, err |-> ErrIO] \in critical

\* C6 (compensation): every order whose createOrder failed has, once the
\* worker is done with it, had its quantity added back to the counter (unless
\* the increment itself hit a store error).
C6_Compensation ==
    \A o \in failedLog :
        (Finished(o) /\ ~RollbackIOError(o)) => o \in restored

\* C7: whatever made createOrder fail (insert error, lock conflict, the 5 s
\* timeout), the worker's rollback adds the order's quantity back to the
\* counter (unless the increment itself hits a store error).
C7_RollbackOnEveryFailureKind ==
    [][\A w \in Workers :
          (/\ workers[w].pc = "rollback"
           /\ workers'[w].pc # "rollback"
           /\ [id |-> workers[w].order.id, err |-> ErrIO] \notin critical')
          => stock' = IncrBy(stock, workers[w].order.qty)]_vars

AllStopped == \A w \in Workers : workers[w].pc = "stopped"

Committed(o) == \E r \in orders : r.id = o

\* C8 (graceful drain), its safety part: when the workers have stopped, the
\* queue is empty and every admitted order is committed or compensated
\* (unless its compensation hit a store error).
C8_GracefulDrain ==
    AllStopped =>
        /\ queue = <<>>
        /\ \A c \in Succeeded :
              Committed(c) \/ c \in restored \/ RollbackIOError(c)

\* C8, its progress part: once the queue is closed with no purchase in
\* flight, the workers drain it and all stop.
DrainTerminates ==
    (closed /\ \A c \in Calls : ~InFlight(c)) ~> (AllStopped /\ queue = <<>>)

\* C9 (no half-applied reservation): a call that has returned either
\* succeeded, having taken its quantity and enqueued its order, or failed
\* without taking anything from the counter.
C9_NoHalfAppliedReservation ==
    \A c \in Returned :
        IF calls[c].res = Accepted
            THEN calls[c].reserved = calls[c].qty /\ c \in EverEnqueued
            ELSE calls[c].reserved = 0

\* C10: a call waiting to send on the full queue whose context is done can
\* return without any worker taking an order first.
C10_SendHonoursContext ==
    \A c \in Calls :
        (/\ Running
         /\ ~closed
         /\ calls[c].pc = "send"
         /\ calls[c].ctxDone
         /\ Len(queue) = QueueSize)
        => ENABLED (Enqueue(c) /\ calls'[c].pc = "done")

\* Call i on the durable store gets its answer in this step.
Answered(i, op) ==
    /\ i \in 1..Len(dbcalls)
    /\ dbcalls[i].op = op
    /\ dbcalls[i].res = Pending
    /\ dbcalls'[i].res # Pending

HasRow(rows, i) == \E r \in rows : r.id = i

\* The guard of createOrder's inventory update matches the row.
GuardMatches(quantity) == inventory.present /\ inventory.stock >= quantity

\* C11 (createOrder is all-or-nothing): in every createOrder call the order
\* row is there afterwards iff the guarded inventory update took effect in
\* that call (stock down by the quantity, version up by 1), and otherwise the
\* row is untouched; when the guard matches no row the statement's answer is
\* OptimisticLockConflict and nothing remains of the call.
C11_CreateOrderAllOrNothing ==
    [][\A i \in 1..MaxStoreCalls :
          Answered(i, "CreateOrder") =>
              LET q == dbcalls[i].qty
                  took == /\ GuardMatches(q)
                          /\ inventory' = [inventory EXCEPT !.stock = @ - q,
                                                            !.version = @ + 1]
              IN  /\ HasRow(orders', i) <=> took
                  /\ ~took => inventory' = inventory
                  /\ orders' \ {NewOrder(i, q)} = orders
                  /\ (~GuardMatches(q) /\ dbcalls'[i].res # ErrIO)
                        => dbcalls'[i].res = ErrOptimisticLock
                  /\ dbcalls'[i].res = ErrOptimisticLock
                        => ~HasRow(orders', i) /\ inventory' = inventory]_vars

\* One createOrder committed, another asked for more than the row held and
\* got the lock conflict.
C11_Witness ==
    \E i, j \in 1..Len(dbcalls) :
        /\ dbcalls[i].op = "CreateOrder"
        /\ dbcalls[i].res = "nil"
        /\ HasRow(orders, i)
        /\ dbcalls[j].op = "CreateOrder"
        /\ dbcalls[j].res = ErrOptimisticLock
        /\ dbcalls[j].qty > 0
        /\ inventory.present
        /\ ~HasRow(orders, j)

\* The updateInventory calls that carry version v, and those among them that
\* started while the row held version v.
Carrying(v) ==
    {i \in 1..Len(dbcalls) :
        dbcalls[i].op = "UpdateInventory" /\ dbcalls[i].version = v}

StartedAt(v) == {i \in Carrying(v) : dbcalls[i].seen = v}

\* The row left version v through a createOrder (the row starts at version 0,
\* so mutation number v + 1 is the one that leaves version v).
LeftByCreateOrder(v) == Len(dblog) > v /\ dblog[v + 1] = "CreateOrder"

\* C12 (optimistic concurrency): of the updateInventory calls that carry the
\* version the row held when they started, once the store has answered them
\* all (and no createOrder moved the row meanwhile), exactly one has
\* succeeded and every other call carrying that version, concurrent or later,
\* has failed with OptimisticLockConflict; the successful step sets the stock
\* and adds exactly 1 to the version, a conflict leaves the row untouched, and
\* a call whose version is not the stored one always conflicts.
C12_OptimisticConcurrency ==
    /\ [](\A v \in Versions :
            (/\ StartedAt(v) # {}
             /\ \A i \in Carrying(v) :
                   dbcalls[i].res \in {"nil", ErrOptimisticLock}
             /\ ~LeftByCreateOrder(v))
            => /\ Cardinality({i \in Carrying(v) : dbcalls[i].res = "nil"}) = 1
               /\ inventory.version > v)
    /\ [][\A i \in 1..MaxStoreCalls :
            Answered(i, "UpdateInventory") =>
                /\ dbcalls'[i].res = "nil"
                      => inventory' = [inventory EXCEPT
                                          !.stock = dbcalls[i].qty,
                                          !.version = @ + 1]
                /\ dbcalls'[i].res = ErrOptimisticLock
                      => inventory' = inventory
                /\ dbcalls[i].version # StoredVersion
                      => /\ dbcalls'[i].res # "nil"
                         /\ inventory' = inventory]_vars

\* Two calls started with the stored version, one won; a third call started
\* later with that old version and lost as well.
C12_Witness ==
    \E v \in Versions :
        /\ Cardinality(StartedAt(v)) = 2
        /\ Cardinality(Carrying(v)) = 3
        /\ \A i \in Carrying(v) : dbcalls[i].res \in {"nil", ErrOptimisticLock}
        /\ \E i \in StartedAt(v) : dbcalls[i].res = "nil"
        /\ \E i \in Carrying(v) \ StartedAt(v) : dbcalls[i].seen = v + 1

\* C13: the durable stock of the item is never negative.
C13_DurableStockNonNegative == inventory.present => inventory.stock >= 0

\* The calls on the durable store that returned nil, and those that returned
\* a store error (whose statement may or may not have taken effect).
Successful == {i \in 1..Len(dbcalls) : dbcalls[i].res = "nil"}
Unanswered == {i \in 1..Len(dbcalls) : dbcalls[i].res = ErrIO}

\* C14 (monotonic version): every createOrder or updateInventory that
\* succeeds adds exactly 1 to the version, every call the store refuses
\* leaves it unchanged, no step lowers it, and (the store having answered
\* every call) the version is its initial value, 0, plus the number of
\* successful calls.
C14_VersionMonotonic ==
    /\ [][\A i \in 1..MaxStoreCalls :
            (Answered(i, "CreateOrder") \/ Answered(i, "UpdateInventory"))
            => /\ dbcalls'[i].res = "nil"
                     => inventory'.version = inventory.version + 1
               /\ dbcalls'[i].res = ErrOptimisticLock
                     => inventory'.version = inventory.version]_vars
    /\ [][inventory'.version >= inventory.version]_vars
    /\ []((inventory.present /\ Unanswered = {})
            => inventory.version = Cardinality(Successful))

\* A createOrder and an updateInventory succeeded and a third call was
\* refused: the version is 2.
C14_Witness ==
    /\ Unanswered = {}
    /\ inventory.present
    /\ inventory.version = 2
    /\ \E i, j, k \in 1..Len(dbcalls) :
          /\ dbcalls[i].op = "CreateOrder" /\ dbcalls[i].res = "nil"
          /\ dbcalls[j].op = "UpdateInventory" /\ dbcalls[j].res = "nil"
          /\ dbcalls[k].res = ErrOptimisticLock

\* The reservation counter and the durable stock both started at S; the
\* purchases so far are for quantity 1 with distinct request ids and no store
\* call has failed for I/O or timeout reasons.
SameStartUnitRun ==
    /\ stock.present
    /\ inventory.present
    /\ initial = initialDurable
    /\ faults = 0
    /\ \A c \in Started : calls[c].qty = 1
    /\ \A c, d \in Started : c # d => calls[c].rid # calls[d].rid

\* Every purchase has returned, the queue is closed and the workers have
\* drained it and stopped.
Drained ==
    /\ Started = Returned
    /\ closed
    /\ AllStopped

\* C15 (the two stores agree): with counter and durable stock both starting
\* at S, distinct request ids, quantity 1 and no I/O or timeout failure, no
\* createOrder fails (none returns OptimisticLockConflict), and after close()
\* and worker drain the durable order rows are exactly the accepted
\* purchases, min(R, S) of them, and the durable stock equals the counter,
\* both 0 when R >= S.
C15_StoresAgree ==
    SameStartUnitRun =>
        /\ failedLog = {}
        /\ \A w \in Workers : workers[w].pc # "rollback"
        /\ Drained =>
              LET R == Cardinality(Started)
              IN  /\ {o.id : o \in orders} = Succeeded
                  /\ Cardinality(orders) = Min(R, initial)
                  /\ inventory.stock = stock.value
                  /\ inventory.stock = initial - Cardinality(orders)
                  /\ R >= initial => inventory.stock = 0 /\ stock.value = 0

\* Two purchases against one unit in both stores: after the drain one order
\* row exists and both stores are at 0.
C15_Witness ==
    /\ SameStartUnitRun
    /\ Drained
    /\ initial = 1
    /\ Cardinality(Started) = 2
    /\ Cardinality(orders) = 1
    /\ inventory.stock = 0
    /\ stock.value = 0

QueuedIDs == {queue[i].id : i \in 1..Len(queue)}

\* The workers that hold an order (between receiving it and being done).
Holding == {w \in Workers : workers[w].pc \in {"create", "rollback"}}

\* C16 (each order is consumed once): an order is in the queue at most once
\* and never while or after a worker has it; no two workers hold the same
\* order; createOrder is about to run only for an order that was neither
\* committed nor logged as failed before; and the queue changes only by a
\* worker taking its head or by a purchase appending an order that was never
\* enqueued before (nothing is put back, also after a failed commit).
C16_ConsumedExactlyOnce ==
    /\ [](/\ \A i, j \in 1..Len(queue) : i # j => queue[i].id # queue[j].id
          /\ \A w \in Holding : workers[w].order.id \notin QueuedIDs
          /\ \A o \in QueuedIDs : ~Committed(o) /\ o \notin failedLog
          /\ \A w, x \in Holding :
                w # x => workers[w].order.id # workers[x].order.id
          /\ \A w \in Workers :
                workers[w].pc = "create"
                    => /\ ~Committed(workers[w].order.id)
                       /\ workers[w].order.id \notin failedLog)
    /\ [][\/ queue' = queue
          \/ /\ queue # <<>>
             /\ queue' = Tail(queue)
             /\ \E w \in Workers :
                   /\ workers[w].pc = "recv"
                   /\ workers'[w].pc = "create"
                   /\ workers'[w].order = Head(queue)
                   /\ \A x \in Workers \ {w} : workers'[x] = workers[x]
          \/ \E c \in Calls :
                /\ c \notin EverEnqueued
                /\ queue' = Append(queue, NewOrder(c, calls[c].qty))]_vars
    /\ [][\A w \in Workers :
            (workers[w].pc = "rollback" /\ workers'[w].pc # "rollback")
                => workers'[w].pc = "recv" /\ queue' = queue]_vars

\* One order failed to commit and its worker is done with it, another was
\* committed, nothing is left in the queue.
C16_Witness ==
    \E o, p \in Calls :
        /\ o # p
        /\ o \in failedLog
        /\ Finished(o)
        /\ ~Committed(o)
        /\ Committed(p)
        /\ queue = <<>>

\* C16, its progress part: while the process runs, an order in the queue is
\* eventually taken by a worker.
C16_EventuallyDequeued ==
    \A o \in Calls : (o \in QueuedIDs) ~> (o \notin QueuedIDs \/ panicked)

\* Call c has reserved its stock and waits to send on the full, open queue.
BlockedOnFull(c) ==
    /\ Running
    /\ ~closed
    /\ calls[c].pc = "send"
    /\ Len(queue) = QueueSize

\* C17 (bounded queue, backpressure): the queue never holds more orders than
\* its capacity; a call at the send with the queue full keeps waiting, its
\* stock reserved and without a result, through every step of the open
\* queue; it leaves the send only by appending its own order to a queue that
\* has room, and it can do so as soon as there is room.
C17_BoundedQueueBackpressure ==
    /\ [](Len(queue) <= QueueSize)
    /\ [](\A c \in Calls :
            calls[c].pc = "send"
                => /\ calls[c].reserved = calls[c].qty
                   /\ calls[c].res = ""
                   /\ (Running /\ ~closed /\ Len(queue) < QueueSize)
                         => ENABLED Enqueue(c))
    /\ [][\A c \in Calls :
            (BlockedOnFull(c) /\ ~closed')
                => /\ calls'[c].pc = "send"
                   /\ calls'[c].reserved = calls[c].reserved
                   /\ calls'[c].res = ""
                   /\ Len(queue') < QueueSize
                         => \E w \in Workers :
                               /\ workers[w].pc = "recv"
                               /\ workers'[w].order = Head(queue)]_vars
    /\ [][\A c \in Calls :
            (calls[c].pc = "send" /\ calls'[c].pc # "send" /\ ~closed)
                => /\ Len(queue) < QueueSize
                   /\ queue' = Append(queue, NewOrder(c, calls[c].qty))
                   /\ calls'[c].res = Accepted]_vars

\* A call has reserved a unit and waits at the send: the queue is full.
C17_Witness ==
    \E c \in Calls :
        /\ BlockedOnFull(c)
        /\ calls[c].reserved > 0
        /\ \E w \in Workers : workers[w].pc = "recv"

\* C18 (close is idempotent to callers): once the queue is closed and no
\* purchase is in flight, a further close() fails nothing and changes
\* nothing (in particular the process does not panic), and a worker waiting
\* on the closed, empty queue can take its step, which ends its loop.
C18_CloseIdempotent ==
    /\ [][(closed /\ \A c \in Calls : ~InFlight(c))
            => panicked' = panicked]_vars
    /\ [](\A w \in Workers :
            (Running /\ closed /\ queue = <<>> /\ workers[w].pc = "recv")
                => ENABLED (Receive(w) /\ workers'[w].pc = "stopped"))

\* Call c gets decrementStock's answer (not an error) in this step.
DecrementAnswered(c) ==
    /\ calls[c].pc = "decr"
    /\ calls'[c].pc # "decr"
    /\ calls'[c].res # ErrDecrementFailed

\* C19 (decrementStock): in the one step in which decrementStock answers, it
\* reports success and the counter goes down by qty iff the key exists and
\* holds at least qty; otherwise it reports failure and the counter is
\* unchanged, and a key that does not exist still does not exist.
C19_DecrementStockAtomic ==
    [][\A c \in Calls :
          DecrementAnswered(c) =>
              LET q == calls[c].qty
                  enough == stock.present /\ stock.value >= q
                  success == calls'[c].pc = "send"
              IN  /\ success <=> enough
                  /\ success => /\ stock'.present
                                /\ stock'.value = stock.value - q
                                /\ calls'[c].reserved = q
                  /\ ~success => /\ stock' = stock
                                 /\ calls'[c].res = ErrInsufficientStock
                                 /\ calls'[c].reserved = 0
                  /\ ~stock.present => ~stock'.present]_vars

\* One call took the units the counter held, the next asked for more than
\* was left and was refused with the counter as it was.
C19_Witness ==
    \E c, d \in Calls :
        /\ faults = 0
        /\ failedLog = {}
        /\ calls[c].reserved > 0
        /\ calls[d].res = ErrInsufficientStock
        /\ calls[d].qty > 0
        /\ calls[c].rid # calls[d].rid
        /\ stock.present
        /\ stock.value = initial - calls[c].reserved
        /\ stock.value < calls[d].qty

\* Call c gets setIdempotency's answer (not an error) in this step.
IdempotencyAnswered(c) ==
    /\ calls[c].pc = "idem"
    /\ calls'[c].pc # "idem"
    /\ calls'[c].res # ErrIdempotencyFailed

\* The calls with request id r that have setIdempotency's answer, and those
\* among them it answered true.
Checked(r) == {c \in Started : calls[c].rid = r /\ PastCheck(c)}
Created(r) == {c \in Checked(r) : calls[c].res # ErrDuplicateRequest}

\* C20 (first writer wins): setIdempotency answers true iff the key was not
\* there, and then the key is there; it answers false without changing any
\* marker; so among the calls on one key, while its marker is live (never
\* expired, every call answered), exactly one got true.
C20_FirstWriterWins ==
    /\ [][\A c \in Calls :
            IdempotencyAnswered(c) =>
                LET key == calls[c].rid
                    created == calls'[c].pc = "decr"
                IN  /\ created <=> key \notin idem
                    /\ created => idem' = idem \cup {key}
                    /\ ~created => /\ idem' = idem
                                   /\ calls'[c].res = ErrDuplicateRequest]_vars
    /\ [](\A r \in RequestIDs :
            (/\ r \notin expired
             /\ Checked(r) # {}
             /\ \A c \in Started :
                   calls[c].rid = r => calls[c].res # ErrIdempotencyFailed)
            => /\ Cardinality(Created(r)) = 1
               /\ r \in idem)

\* Two calls on one key, both answered: the one that created the marker is
\* still on its way, the other got false.
C20_Witness ==
    \E c, d \in Calls :
        /\ c # d
        /\ calls[c].rid = calls[d].rid
        /\ calls[c].rid \notin expired
        /\ calls[c].rid \in idem
        /\ calls[c].pc = "decr"
        /\ calls[d].res = ErrDuplicateRequest
        /\ faults = 0

\* C21: every order on the queue has quantity > 0, and a purchase request
\* with quantity <= 0 takes nothing from the counter, sets no marker and
\* enqueues nothing, whichever handler it came through.
C21_OnlyPositiveQuantities ==
    /\ \A i \in 1..Len(queue) : queue[i].qty > 0
    /\ \A c \in Started :
          calls[c].qty <= 0
              => /\ calls[c].reserved = 0
                 /\ c \notin EverEnqueued
                 /\ (\A d \in Started \ {c} : calls[d].rid # calls[c].rid)
                       => calls[c].rid \notin idem \cup expired

RECURSIVE SumOver(_, _)
SumOver(S, f) ==
    IF S = {} THEN 0
    ELSE LET x == CHOOSE y \in S : TRUE IN f[x] + SumOver(S \ {x}, f)

\* The orders whose compensating increment failed: logged CRITICAL and not
\* added back on the reservation store.
Unrecovered == {e.id : e \in critical} \ restored

\* What the counter has to be: the bootstrap value, less what the purchase
\* calls took, plus what the workers gave back.
CounterBalance ==
    initial - SumOver(Calls, [c \in Calls |-> calls[c].reserved])
            + SumOver(restored, [o \in Calls |-> calls[o].qty])

\* C22: when the compensating increment of an order fails, the worker logs
\* it as CRITICAL in that very step, goes back to the channel for the next
\* order without retrying the increment or the commit and without putting
\* the order back, and the counter stays short by the order's quantity from
\* then on: the order is never restored later and the counter is always the
\* bootstrap value less the reservations plus the restored quantities only.
C22_FailedCompensationIsCritical ==
    /\ [][\A w \in Workers :
            (/\ workers[w].pc = "rollback"
             /\ workers'[w].pc # "rollback"
             /\ workers[w].order.id \notin restored')
            => /\ \E e \in critical' : e.id = workers[w].order.id
               /\ workers'[w] = Idle
               /\ queue' = queue
               /\ stock' = stock
               /\ inventory' = inventory
               /\ orders' = orders]_vars
    /\ [][\A o \in Calls :
            o \in Unrecovered
                => /\ o \in Unrecovered'
                   /\ o \notin QueuedIDs'
                   /\ \A w \in Workers :
                         workers'[w].pc \in {"create", "rollback"}
                             => workers'[w].order.id # o]_vars
    /\ [](stock.value = CounterBalance)
    /\ [](\A o \in Unrecovered : o \in failedLog /\ Finished(o))

\* The increment of a failed order did not go through (the worker's context
\* had expired): the worker is back at the channel, the failure is logged
\* and the counter is short by the order's quantity.
C22_Witness ==
    \E o \in Calls :
        /\ o \in Unrecovered
        /\ calls[o].qty > 0
        /\ Finished(o)
        /\ \A c \in Calls \ {o} : calls[c].reserved = 0
        /\ stock.value = initial - calls[o].qty
        /\ \E w \in Workers : workers[w].pc = "stopped"

\* C23 (fail-closed): when setIdempotency returns an I/O error the call
\* returns at once with a failure of its own kind, having neither run
\* decrementStock nor enqueued anything; when decrementStock returns an I/O
\* error the call returns such a failure and enqueues nothing.
C23_StoreErrorsFailClosed ==
    /\ [][\A c \in Calls :
            (calls[c].pc = "idem" /\ calls'[c].pc # "idem"
                /\ calls'[c].pc # "decr")
            => \/ calls'[c].res = ErrDuplicateRequest
               \/ /\ calls'[c].res = ErrIdempotencyFailed
                  /\ calls'[c].pc = "done"
                  /\ stock' = stock
                  /\ queue' = queue]_vars
    /\ [][\A c \in Calls :
            (calls[c].pc = "decr" /\ calls'[c].pc \notin {"decr", "send"})
            => /\ calls'[c].pc = "done"
               /\ calls'[c].res \in {ErrInsufficientStock, ErrDecrementFailed}
               /\ queue' = queue]_vars
    /\ [][\A c \in Calls :
            (calls[c].pc = "idem" /\ calls'[c].pc = "decr")
                => faults' = faults /\ ~calls[c].ctxDone]_vars
    /\ [](\A c \in Calls :
            calls[c].res \in {ErrIdempotencyFailed, ErrDecrementFailed}
                => /\ calls[c].pc = "done"
                   /\ c \notin EverEnqueued
                   /\ calls[c].res = ErrIdempotencyFailed
                         => calls[c].reserved = 0)

\* A call failed on the idempotency check (the marker was written, the answer
\* lost) with stock to sell: the counter is as it was, nothing was enqueued.
C23_Witness ==
    \E c \in Calls :
        /\ calls[c].res = ErrIdempotencyFailed
        /\ calls[c].rid \in idem
        /\ calls[c].qty > 0
        /\ stock.present
        /\ initial >= calls[c].qty
        /\ stock.value = initial
        /\ EverEnqueued = {}

\* The four outcomes of purchase: success, DuplicateRequest,
\* InsufficientStock, any other error.
OutcomeKind(res) ==
    IF res \in {Accepted, ErrDuplicateRequest, ErrInsufficientStock}
        THEN res ELSE "other error"

\* The calls OrderService.Purchase has returned from.
ServiceReturned == {c \in Returned : calls[c].res # ErrBadRequest}

\* C24: over HTTP success is answered 200, DuplicateRequest 409,
\* InsufficientStock 410 and any other error 500; over both transports two
\* purchases get the same response iff their outcomes are of the same kind.
C24_DistinctResponses ==
    /\ \A c \in ServiceReturned :
          LET k == OutcomeKind(calls[c].res)
              r == HTTPResponse(calls[c].res)
              g == GRPCResponse(calls[c].res)
          IN  /\ r.status = (IF k = Accepted THEN 200
                             ELSE IF k = ErrDuplicateRequest THEN 409
                             ELSE IF k = ErrInsufficientStock THEN 410
                             ELSE 500)
              /\ r.success <=> k = Accepted
              /\ g.success <=> k = Accepted
    /\ \A c, d \in ServiceReturned :
          LET same == OutcomeKind(calls[c].res) = OutcomeKind(calls[d].res)
          IN  /\ same <=> HTTPResponse(calls[c].res).status
                            = HTTPResponse(calls[d].res).status
              /\ same <=> HTTPResponse(calls[c].res) = HTTPResponse(calls[d].res)
              /\ same <=> GRPCResponse(calls[c].res) = GRPCResponse(calls[d].res)

\* One purchase was refused for lack of stock, another failed on a store
\* error: 410 and 500.
C24_Witness ==
    \E c, d \in ServiceReturned :
        /\ calls[c].res = ErrInsufficientStock
        /\ calls[d].res \in {ErrIdempotencyFailed, ErrDecrementFailed}
        /\ HTTPResponse(calls[c].res).status = 410
        /\ GRPCResponse(calls[d].res).message = "internal error"

\* The steps of one purchase call, in order.
StepAfter(pc) ==
    CASE pc = "idle" -> {"idem", "done"}
      [] pc = "idem" -> {"decr", "done"}
      [] pc = "decr" -> {"send", "done"}
      [] pc = "send" -> {"done", "panicked"}
      [] OTHER -> {}

\* C25 (strict order, no retry): a purchase call only moves forward, from the
\* idempotency check to the decrement to the send, never back and never
\* twice through a step; it reaches the decrement only in the step in which
\* setIdempotency created its marker, reaches the send only in the step in
\* which decrementStock took its quantity, and its order enters the queue
\* only in the step that ends the send, once.
C25_StrictStepOrder ==
    [][\A c \in Calls :
          /\ calls'[c].pc # calls[c].pc
                => calls'[c].pc \in StepAfter(calls[c].pc)
          /\ (calls[c].pc = "idle" /\ calls'[c].pc = "done")
                => calls'[c].res = ErrBadRequest
          /\ calls'[c].pc = "decr" /\ calls[c].pc # "decr"
                => /\ calls[c].pc = "idem"
                   /\ calls[c].rid \notin idem
                   /\ calls[c].rid \in idem'
                   /\ stock' = stock
          /\ calls'[c].pc = "send" /\ calls[c].pc # "send"
                => /\ calls[c].pc = "decr"
                   /\ stock.present
                   /\ stock.value >= calls[c].qty
                   /\ stock'.value = stock.value - calls[c].qty
                   /\ queue' = queue
          /\ (c \in QueuedIDs' /\ c \notin QueuedIDs)
                => /\ calls[c].pc = "send"
                   /\ calls'[c].pc = "done"
                   /\ c \notin EverEnqueued
          /\ calls[c].pc \in {"idle", "idem", "decr"} => c \notin EverEnqueued
          /\ calls[c].pc \in {"idle", "idem"} => calls[c].reserved = 0]_vars

\* One call went through all three steps: its marker is set, the counter is
\* down by its quantity and its order is in the queue; the other call has
\* not started.
C25_Witness ==
    \E c \in Calls :
        /\ Started = {c}
        /\ calls[c].res = Accepted
        /\ calls[c].qty > 0
        /\ calls[c].rid \in idem
        /\ stock.value = initial - calls[c].qty
        /\ QueuedIDs = {c}
        /\ faults = 0

\* How many orders have left the queue, and the ids a worker has finished
\* with (committed or logged as failed).
Dequeued == Len(enqueued) - Len(queue)
Processed == {o.id : o \in orders} \cup failedLog

\* C26 (FIFO, no reordering, no deduplication), with a single worker: the
\* queue holds exactly the orders enqueued last, each once and in the order
\* in which they were enqueued, whatever their fields; the worker takes them
\* in that order, so the order it holds is the one enqueued right after all
\* those it has finished with, and every accepted purchase is delivered.
C26_FifoSingleWorker ==
    /\ [](/\ Dequeued >= 0
          /\ \A i \in 1..Len(queue) : queue[i].id = enqueued[Dequeued + i]
          /\ \A i, j \in 1..Len(enqueued) : i # j => enqueued[i] # enqueued[j]
          /\ {enqueued[i] : i \in 1..Len(enqueued)} = Succeeded
          /\ IF workers["w1"].pc \in {"create", "rollback"}
                 THEN /\ Dequeued >= 1
                      /\ workers["w1"].order.id = enqueued[Dequeued]
                      /\ \A i \in 1..(Dequeued - 1) : enqueued[i] \in Processed
                 ELSE \A i \in 1..Dequeued : enqueued[i] \in Processed
          /\ \A i \in (Dequeued + 1)..Len(enqueued) :
                enqueued[i] \notin Processed)
    /\ [][Len(queue') < Len(queue)
            => /\ queue' = Tail(queue)
               /\ workers'["w1"].pc = "create"
               /\ workers'["w1"].order = Head(queue)
               /\ workers'["w1"].order.id = enqueued[Dequeued + 1]]_vars

\* Two orders alike in everything but their id, enqueued in the opposite
\* order of their calls: the worker holds the one enqueued first while the
\* other waits in the queue.
C26_Witness ==
    /\ enqueued = <<2, 1>>
    /\ calls[1].qty = calls[2].qty
    /\ workers["w1"].pc = "create"
    /\ workers["w1"].order.id = 2
    /\ QueuedIDs = {1}

\* Order a was enqueued before order b.
EnqueuedBefore(a, b) ==
    \E i, j \in 1..Len(enqueued) :
        i < j /\ enqueued[i] = a /\ enqueued[j] = b

\* C27 (no global commit order with two workers): nothing holds a later
\* order back behind an earlier one.  While one worker holds order A, another
\* worker at the channel can take the next order B; and while A is still
\* being committed by one worker, the other can commit B, enqueued after A,
\* first.
C27_CommitOrderNotPreserved ==
    \A w, x \in Workers :
        (w # x /\ Running /\ workers[w].pc = "create")
        => /\ (workers[x].pc = "recv" /\ queue # <<>>)
                 => ENABLED (/\ Receive(x)
                             /\ workers'[x].pc = "create"
                             /\ workers'[w] = workers[w])
           /\ (/\ workers[x].pc = "create"
               /\ EnqueuedBefore(workers[w].order.id, workers[x].order.id)
               /\ GuardMatches(workers[x].order.qty))
                 => ENABLED (/\ CreateOrder(x)
                             /\ \E r \in orders' : r.id = workers[x].order.id
                             /\ \A r \in orders' : r.id # workers[w].order.id
                             /\ workers'[w] = workers[w])

\* A was enqueued before B; B is committed while A's worker has not committed
\* A yet, and the durable stock still covers A.
C27_Witness ==
    \E w \in Workers, b \in Calls :
        /\ workers[w].pc = "create"
        /\ EnqueuedBefore(workers[w].order.id, b)
        /\ Committed(b)
        /\ ~Committed(workers[w].order.id)
        /\ workers[w].order.id \notin failedLog
        /\ GuardMatches(workers[w].order.qty)
        /\ workers[w].order.qty > 0

\* C28 (backpressure is not a deadlock): a call waiting to send on the full
\* queue eventually has its order enqueued and returns success (unless the
\* queue is closed under it).
C28_BlockedCallEventuallyAccepted ==
    \A c \in Calls :
        BlockedOnFull(c) ~> (calls[c].res = Accepted \/ closed \/ panicked)

\* The queue of one took a second order after a worker had taken the first:
\* both purchases are accepted, the later order waits in the queue.
C28_Witness ==
    \E c, d \in Calls :
        /\ enqueued = <<d, c>>
        /\ calls[c].res = Accepted
        /\ calls[d].res = Accepted
        /\ QueuedIDs = {c}
        /\ ~closed
        /\ \E w \in Workers :
              workers[w].pc = "create" /\ workers[w].order.id = d

\* The step is a decrementStock of call c that took the call's quantity.
TakenBy(c) ==
    /\ calls[c].pc = "decr"
    /\ calls'[c].pc # "decr"
    /\ stock.present
    /\ stock.value >= calls[c].qty
    /\ stock' = [stock EXCEPT !.value = @ - calls[c].qty]

\* The step is worker w's compensating increment for an order whose
\* createOrder failed.
GivenBackBy(w) ==
    /\ workers[w].pc = "rollback"
    /\ workers'[w].pc # "rollback"
    /\ workers[w].order.id \in failedLog
    /\ stock' = IncrBy(stock, workers[w].order.qty)

\* C29 (what changes the counter): after bootstrap the counter changes only
\* in a step in which decrementStock takes a purchase's quantity or in which
\* a worker adds back the quantity of an order whose createOrder failed; a
\* step that commits an order, that answers DuplicateRequest or
\* InsufficientStock, or that closes the queue leaves it as it is.
C29_CounterFrame ==
    /\ [][stock' # stock
            => \/ \E c \in Calls : TakenBy(c)
               \/ \E w \in Workers : GivenBackBy(w)]_vars
    /\ [][(\/ orders' # orders
           \/ closed' # closed
           \/ \E w \in Workers :
                 workers[w].pc = "create" /\ workers'[w].pc = "recv"
           \/ \E c \in Calls :
                 /\ calls'[c].res # calls[c].res
                 /\ calls'[c].res \in {ErrDuplicateRequest,
                                       ErrInsufficientStock, ErrBadRequest,
                                       ErrIdempotencyFailed, Accepted})
            => stock' = stock]_vars

\* An order for two units failed to commit and was compensated: the counter
\* went down by two and is back at its bootstrap value.
C29_Witness ==
    \E o \in restored :
        /\ calls[o].qty = 2
        /\ calls[o].reserved = 2
        /\ Started = {o}
        /\ ~Committed(o)
        /\ stock.value = initial
        /\ initial = 2

\* ---------------------------------------------------------------- C30

\* Every order the pipeline currently holds or has stored: those waiting on
\* the queue, those a worker is handling, and the rows of the orders table.
OrdersInPipeline ==
    {queue[i] : i \in 1..Len(queue)}
        \cup {workers[w].order : w \in Holding}
        \cup orders

\* The order is the one its purchase call asked for: a non-empty ID, the
\* call's user, item and quantity, and status Pending.
AsPurchased(o) ==
    /\ o.id \in Calls
    /\ o.id # NoOrder.id
    /\ o.userID = UserID
    /\ o.itemID = ItemID
    /\ o.qty = calls[o.id].qty
    /\ o.status = OrderStatusPending

\* One step hands orders on unchanged: the send appends the order of the
\* sending call, the receive takes the head of the queue, a worker keeps the
\* order it holds, a new row is the order of the worker that committed it,
\* stored rows never change, and a compensation adds the held order's
\* quantity.
OrdersHandedOnUnchanged ==
    /\ Len(queue') > Len(queue) =>
           \E c \in Calls :
               /\ calls[c].pc = "send"
               /\ calls'[c].res = Accepted
               /\ queue' = Append(queue, [id |-> c, userID |-> UserID,
                                          itemID |-> ItemID,
                                          qty |-> calls[c].qty,
                                          status |-> OrderStatusPending])
    /\ orders \subseteq orders'
    /\ (orders' \ orders) \subseteq
           {workers[w].order : w \in {v \in Holding : workers[v].pc = "create"}}
    /\ \A w \in Workers :
           /\ (workers[w].pc = "recv" /\ workers'[w].pc = "create") =>
                  /\ queue # <<>>
                  /\ workers'[w].order = Head(queue)
                  /\ queue' = Tail(queue)
           /\ (w \in Holding /\ workers'[w].pc \in {"create", "rollback"}) =>
                  workers'[w].order = workers[w].order
           /\ (workers[w].pc = "rollback" /\ workers'[w].pc # "rollback"
                   /\ stock' # stock) =>
                  /\ workers[w].order.itemID = ItemID
                  /\ stock' = IncrBy(stock, workers[w].order.qty)

ReservedOrders ==
    {c \in Calls : calls[c].pc \in {"send", "panicked"}
                      \/ calls[c].res = Accepted}

\* C31: as long as no compensation has failed, the reservation counter is
\* the bootstrap value less the quantities of the orders that were
\* reserved and have not been compensated.
C31_StockConservation ==
    critical = {} =>
        stock.value = initial - SumOver(ReservedOrders \ restored,
                                        [c \in Calls |-> calls[c].qty])

\* ---------------------------------------------------------------- C32

\* C32: no order is both stored as a row in the durable store and given
\* back to the reservation counter by a compensating increment.
C32_NeverCommittedAndCompensated ==
    \A o \in restored : ~Committed(o)

\* ---------------------------------------------------------------- C33

\* C33: the reservation counter never exceeds the value it was initialised
\* to.
C33_CounterNeverAboveInitial ==
    stock.present => stock.value <= initial

\* ---------------------------------------------------------------- C34

\* A marker leaves the store in this step.
MarkerRemoved(rid) == rid \in idem /\ rid \notin idem'

\* Call d, a purchase with the request id of the dropped and compensated
\* order c, gets the answer of its idempotency check in this step.
RetryOfCompensated(c, d) ==
    /\ c # d
    /\ c \in restored
    /\ c \in failedLog
    /\ calls[d].rid = calls[c].rid
    /\ calls[d].pc = "idem"
    /\ calls'[d].pc # "idem"
    /\ calls'[d].res # ErrIdempotencyFailed

\* C34: a marker is removed by its expiry only, in a step that is no step
\* of a purchase or a worker; so the marker of every call that passed the
\* idempotency check stays set until it expires, also after
\* InsufficientStock, after a reservation-store error in the decrement and
\* after a failed commit with compensation; and a purchase with the request
\* id of a dropped and compensated order is answered DuplicateRequest as
\* long as the marker has not expired.
C34_MarkerNeverCleared ==
    /\ [][\A rid \in RequestIDs :
            MarkerRemoved(rid) => /\ rid \in expired'
                                  /\ idem' = idem \ {rid}
                                  /\ calls' = calls
                                  /\ workers' = workers
                                  /\ stock' = stock
                                  /\ queue' = queue]_vars
    /\ [](\A c \in Calls :
            (PastCheck(c) /\ calls[c].rid \notin expired)
                => calls[c].rid \in idem)
    /\ [][\A c, d \in Calls :
            (RetryOfCompensated(c, d) /\ calls[c].rid \notin expired')
                => /\ calls'[d].res = ErrDuplicateRequest
                   /\ stock' = stock
                   /\ queue' = queue]_vars

\* An admitted order was dropped by the worker and its quantity given back;
\* the retry with the same request id, for a quantity the counter covers,
\* was answered DuplicateRequest while the marker was still set.
C34_Witness ==
    \E c, d \in Calls :
        /\ c # d
        /\ calls[c].rid = calls[d].rid
        /\ calls[c].res = Accepted
        /\ c \in restored
        /\ ~Committed(c)
        /\ calls[c].rid \in idem
        /\ calls[c].rid \notin expired
        /\ calls[d].res = ErrDuplicateRequest
        /\ calls[d].qty > 0
        /\ stock.value >= calls[d].qty

\* ---------------------------------------------------------------- C35

\* The sum of the quantities of a set of order rows.
RECURSIVE SumQuantities(_)
SumQuantities(rows) ==
    IF rows = {} THEN 0
    ELSE LET r == CHOOSE x \in rows : TRUE
         IN  r.qty + SumQuantities(rows \ {r})

\* No updateInventory has written the inventory row.
OnlyCreateOrderWrote ==
    \A k \in 1..Len(dblog) : dblog[k] = "CreateOrder"

\* C35 (durable stock conservation): while createOrder is the only writer
\* of the inventory row, the durable stock plus the quantities of the
\* persisted order rows is the initial durable stock (and without an
\* inventory row there is no order row); every step that changes the
\* durable stock adds exactly one order row and takes that row's quantity,
\* whichever worker makes it.
C35_DurableStockConservation ==
    /\ [](OnlyCreateOrderWrote =>
            /\ inventory.stock + SumQuantities(orders) = initialDurable
            /\ ~inventory.present => orders = {})
    /\ [][(OnlyCreateOrderWrote' /\ (inventory' # inventory \/ orders' # orders))
            => \E r \in orders' \ orders :
                  /\ orders' = orders \cup {r}
                  /\ inventory'.stock = inventory.stock - r.qty]_vars

\* Both workers have committed an order of one unit each, and the durable
\* stock went from 2 to 0.
C35_Witness ==
    \E r, s \in orders :
        /\ r.id # s.id
        /\ r.qty = 1
        /\ s.qty = 1
        /\ initialDurable = 2
        /\ inventory.stock = 0
        /\ OnlyCreateOrderWrote
        /\ Len(dblog) = 2

\* ---------------------------------------------------------------- C36

\* The createOrder calls that committed after call i read the row: their
\* order row exists and they started at or after the version call i read
\* (the version only grows, so their commit came after that read).
CommittedSince(i) ==
    {j \in 1..Len(dbcalls) :
        /\ dbcalls[j].op = "CreateOrder"
        /\ HasRow(orders, j)
        /\ dbcalls[j].seen >= dbcalls[i].seen}

\* Call i, an updateInventory still waiting for its answer, carries the
\* version it read, and a createOrder has committed on the item since that
\* read.
StaleUpdate(i) ==
    /\ i \in 1..Len(dbcalls)
    /\ dbcalls[i].op = "UpdateInventory"
    /\ dbcalls[i].res = Pending
    /\ dbcalls[i].version = dbcalls[i].seen
    /\ CommittedSince(i) # {}

\* C36: an updateInventory carrying a version read before a createOrder
\* committed leaves the inventory row (stock and version) and the order
\* rows as they are, and the store's answer to it is
\* OptimisticLockConflict; it never returns success.
C36_StaleUpdateAfterCreateOrder ==
    [][\A i \in 1..MaxStoreCalls :
          (Answered(i, "UpdateInventory") /\ StaleUpdate(i))
              => /\ inventory' = inventory
                 /\ orders' = orders
                 /\ dbcalls'[i].res # "nil"
                 /\ dbcalls'[i].res # ErrIO
                       => dbcalls'[i].res = ErrOptimisticLock]_vars

\* An updateInventory read version 0 and asked for a stock other than the
\* one the row holds now; a createOrder of one unit committed in between;
\* the update got the lock conflict and the row holds what createOrder
\* wrote.
C36_Witness ==
    \E i, j \in 1..Len(dbcalls) :
        /\ i < j
        /\ dbcalls[i].op = "UpdateInventory"
        /\ dbcalls[i].version = dbcalls[i].seen
        /\ dbcalls[i].seen = 0
        /\ dbcalls[i].res = ErrOptimisticLock
        /\ j \in CommittedSince(i)
        /\ dbcalls[j].res = "nil"
        /\ dbcalls[j].qty = 1
        /\ inventory.stock = initialDurable - 1
        /\ inventory.version = 1
        /\ dbcalls[i].qty # inventory.stock

====
